---- MODULE Spec2Model ----
(***************************************************************************)
(* Temperature converter (temperature_converter.py): the Converter's pure  *)
(* functions and the interactive shell TemperatureConverterApp.            *)
(*                                                                         *)
(* Python floats are modelled by a scaled-down decimal format: a finite    *)
(* value is an integer number of thousandths of a degree, of magnitude at  *)
(* most MaxFloat; a result beyond MaxFloat overflows to +-inf, a quotient  *)
(* is rounded to the nearest representable value, and inf and nan follow   *)
(* IEEE 754 (every ordered comparison with nan is false).                  *)
(***************************************************************************)
EXTENDS Integers, Sequences, FiniteSets, TLC

VARIABLES
    pc,          \* where the program is: Starting, Constructed, MenuPrompt, AwaitingInput,
                 \* Terminated, Exited
    viaMain,     \* TRUE when run() was entered through main()
    choice,      \* run()'s local choice (0: not yet bound)
    celsius,     \* run()'s local celsius (Unbound before its first assignment)
    fahrenheit,  \* run()'s local fahrenheit (Unbound before its first assignment)
    output,      \* the lines print() has written, oldest first
    log,         \* the records handed to the logger, oldest first
    exitStatus,  \* <<>> while the process runs, then <<its exit status>>
    console,     \* what the last input() call delivered
    nreads,      \* the input() calls made so far
    menuRetries, \* consecutive rejected entries of the current menu prompt
    numRetries,  \* consecutive rejected entries of the current numeric prompt
    op,          \* converter harness: the function applied last
    arg,         \* converter harness: its float argument
    scale,       \* converter harness: its scale argument
    ret          \* converter harness: its outcome

vars == <<pc, viaMain, choice, celsius, fahrenheit, output, log, exitStatus,
          console, nreads, menuRetries, numRetries, op, arg, scale, ret>>

shellVars == <<pc, viaMain, choice, celsius, fahrenheit, output, log, exitStatus,
               console, nreads, menuRetries, numRetries>>

harnessVars == <<op, arg, scale, ret>>

(***************************************************************************)
(* Bounds of the model.                                                    *)
(***************************************************************************)
\* the largest finite float, in thousandths (sys.float_info.max scaled down)
MaxFloat == 10000000
\* the console entries one run reads at most
MaxReads == 5
\* the retry counters saturate here
MaxRetries == 3
\* half-width of the windows of harness inputs around each range bound
Window == 12
\* the round-trip tolerance, in thousandths
Tol == 1

(***************************************************************************)
(* Floats.                                                                 *)
(***************************************************************************)
Deg(n) == n * 1000

Fin(n) == [k |-> "fin", v |-> n]
PosInf == [k |-> "inf", v |-> 1]
NegInf == [k |-> "inf", v |-> -1]
NaN == [k |-> "nan", v |-> 0]

IsFinite(x) == x.k = "fin"

Abs(n) == IF n < 0 THEN -n ELSE n

\* a real result n (in thousandths) as a float: overflow gives an infinity
FRound(n) ==
    IF n > MaxFloat THEN PosInf
    ELSE IF n < -MaxFloat THEN NegInf
    ELSE Fin(n)

\* n / d rounded to the nearest integer, ties to even (d > 0)
RoundDiv(n, d) ==
    LET q == n \div d
        r == n % d
    IN  IF 2 * r < d THEN q
        ELSE IF 2 * r > d THEN q + 1
        ELSE IF q % 2 = 0 THEN q ELSE q + 1

\* x * m for a positive integer literal m
FMul(x, m) == IF IsFinite(x) THEN FRound(x.v * m) ELSE x

\* x / d for a positive integer literal d
FDiv(x, d) == IF IsFinite(x) THEN Fin(RoundDiv(x.v, d)) ELSE x

\* x + n and x - n for a literal n given in thousandths
FAdd(x, n) == IF IsFinite(x) THEN FRound(x.v + n) ELSE x

FSub(x, n) == IF IsFinite(x) THEN FRound(x.v - n) ELSE x

\* x < n and x > n for a literal n given in thousandths
FLt(x, n) ==
    CASE x.k = "nan" -> FALSE
      [] x.k = "inf" -> x.v < 0
      [] OTHER -> x.v < n

FGt(x, n) ==
    CASE x.k = "nan" -> FALSE
      [] x.k = "inf" -> x.v > 0
      [] OTHER -> x.v > n

(***************************************************************************)
(* TemperatureConverter.                                                   *)
(***************************************************************************)
CelsiusMin == -273150
CelsiusMax == 1000000
FahrenheitMin == -459670
FahrenheitMax == 1832000

\* a slip: the factor of the other direction, (celsius * 5/9) + 32
celsius_to_fahrenheit_inverted(c) == FAdd(FDiv(FMul(c, 5), 9), Deg(32))

\* (celsius * 9/5) + 32
celsius_to_fahrenheit(c) == FAdd(FDiv(FMul(c, 9), 5), Deg(32))

\* a slip: the offset taken after the scaling, fahrenheit * 5/9 - 32
fahrenheit_to_celsius_late_offset(f) == FSub(FDiv(FMul(f, 5), 9), Deg(32))

\* (fahrenheit - 32) * 5/9
fahrenheit_to_celsius(f) == FDiv(FMul(FSub(f, Deg(32)), 5), 9)

NoError == [raised |-> FALSE, kind |-> "", scale |-> "", temp |-> NaN]

TemperatureConversionError(s, temp) ==
    [raised |-> TRUE, kind |-> "TemperatureConversionError", scale |-> s, temp |-> temp]

\* a slip: the upper Fahrenheit bound is 1800 instead of 1832
validate_temperature_narrow(temp, s) ==
    IF s = "C" /\ (FLt(temp, CelsiusMin) \/ FGt(temp, CelsiusMax))
    THEN TemperatureConversionError("Celsius", temp)
    ELSE IF s = "F" /\ (FLt(temp, FahrenheitMin) \/ FGt(temp, 1800000))
    THEN TemperatureConversionError("Fahrenheit", temp)
    ELSE NoError

\* a slip: the scale tag is compared without regard to case
validate_temperature_any_case(temp, s) ==
    IF s \in {"C", "c"} /\ (FLt(temp, CelsiusMin) \/ FGt(temp, CelsiusMax))
    THEN TemperatureConversionError("Celsius", temp)
    ELSE IF s \in {"F", "f"} /\ (FLt(temp, FahrenheitMin) \/ FGt(temp, FahrenheitMax))
    THEN TemperatureConversionError("Fahrenheit", temp)
    ELSE NoError

\* the exception validate_temperature raises, or NoError when it returns
validate_temperature(temp, s) ==
    IF s = "C" /\ (FLt(temp, CelsiusMin) \/ FGt(temp, CelsiusMax))
    THEN TemperatureConversionError("Celsius", temp)
    ELSE IF s = "F" /\ (FLt(temp, FahrenheitMin) \/ FGt(temp, FahrenheitMax))
    THEN TemperatureConversionError("Fahrenheit", temp)
    ELSE NoError

(***************************************************************************)
(* Console entries are sequences of characters; int() and float() parse    *)
(* them, and repr() and the format spec .2f print floats.                  *)
(***************************************************************************)
DigitChars == <<"0", "1", "2", "3", "4", "5", "6", "7", "8", "9">>

IsDigit(c) == \E i \in 1..10 : DigitChars[i] = c

DigitVal(c) == (CHOOSE i \in 1..10 : DigitChars[i] = c) - 1

AllDigits(s) == \A i \in 1..Len(s) : IsDigit(s[i])

RECURSIVE NatOf(_)
NatOf(s) == IF s = <<>> THEN 0 ELSE NatOf(SubSeq(s, 1, Len(s) - 1)) * 10 + DigitVal(s[Len(s)])

RECURSIVE Pow10(_)
Pow10(n) == IF n = 0 THEN 1 ELSE 10 * Pow10(n - 1)

\* str.strip(): leading and trailing blanks removed
RECURSIVE Strip(_)
Strip(s) ==
    IF s = <<>> THEN s
    ELSE IF s[1] = " " THEN Strip(Tail(s))
    ELSE IF s[Len(s)] = " " THEN Strip(SubSeq(s, 1, Len(s) - 1))
    ELSE s

Lower(c) ==
    CASE c = "I" -> "i" [] c = "N" -> "n" [] c = "F" -> "f" [] c = "A" -> "a"
      [] c = "T" -> "t" [] c = "Y" -> "y" [] c = "E" -> "e" [] OTHER -> c

LowerAll(s) == [i \in 1..Len(s) |-> Lower(s[i])]

HasSign(s) == s # <<>> /\ s[1] \in {"+", "-"}

Unsigned(s) == IF HasSign(s) THEN Tail(s) ELSE s

SignOf(s) == IF s # <<>> /\ s[1] = "-" THEN -1 ELSE 1

\* the first index of character c in s, or 0
IndexOf(s, c) == IF \E i \in 1..Len(s) : s[i] = c
                 THEN CHOOSE i \in 1..Len(s) : s[i] = c /\ \A j \in 1..(i - 1) : s[j] # c
                 ELSE 0

ValueError == [ok |-> FALSE, val |-> 0]

\* int(s.strip()): an optional sign and decimal digits
ParseInt(e) ==
    LET s == Strip(e)
        body == Unsigned(s)
    IN  IF body # <<>> /\ AllDigits(body)
        THEN [ok |-> TRUE, val |-> SignOf(s) * NatOf(body)]
        ELSE ValueError

FloatValueError == [ok |-> FALSE, val |-> NaN]

\* digits "." digits, at least one digit in all: the number times 10^exp10,
\* rounded to the nearest float
DecimalToFloat(sign, mant, exp10) ==
    LET dot == IndexOf(mant, ".")
        ip == IF dot = 0 THEN mant ELSE SubSeq(mant, 1, dot - 1)
        fp == IF dot = 0 THEN <<>> ELSE SubSeq(mant, dot + 1, Len(mant))
        n == NatOf(ip \o fp)
        shift == exp10 - Len(fp) + 3
    IN  IF ~(AllDigits(ip) /\ AllDigits(fp) /\ Len(ip) + Len(fp) > 0) THEN FloatValueError
        ELSE IF n = 0 THEN [ok |-> TRUE, val |-> Fin(0)]
        ELSE IF shift > 8 THEN [ok |-> TRUE, val |-> FRound(sign * (MaxFloat + 1))]
        ELSE IF shift >= 0 THEN [ok |-> TRUE, val |-> FRound(sign * n * Pow10(shift))]
        ELSE IF shift < -9 THEN [ok |-> TRUE, val |-> Fin(0)]
        ELSE [ok |-> TRUE, val |-> FRound(sign * RoundDiv(n, Pow10(-shift)))]

\* float(s.strip()): inf, infinity and nan in any case, or a decimal number
\* with an optional exponent
ParseFloat(e) ==
    LET s == LowerAll(Strip(e))
        body == Unsigned(s)
        ex == IndexOf(body, "e")
        mant == IF ex = 0 THEN body ELSE SubSeq(body, 1, ex - 1)
        expo == IF ex = 0 THEN <<"0">> ELSE SubSeq(body, ex + 1, Len(body))
        ep == ParseInt(expo)
    IN  IF body \in {<<"i", "n", "f">>, <<"i", "n", "f", "i", "n", "i", "t", "y">>}
        THEN [ok |-> TRUE, val |-> IF SignOf(s) < 0 THEN NegInf ELSE PosInf]
        ELSE IF body = <<"n", "a", "n">> THEN [ok |-> TRUE, val |-> NaN]
        ELSE IF ~ep.ok \/ expo # Strip(expo) THEN FloatValueError
        ELSE DecimalToFloat(SignOf(s), mant, ep.val)

Digits2(n) == IF n < 10 THEN "0" \o ToString(n) ELSE ToString(n)

Digits3(n) == IF n < 100 THEN "0" \o Digits2(n) ELSE ToString(n)

\* f"{x:.2f}": two decimals, the nearest, ties to even
Format2f(x) ==
    CASE x.k = "nan" -> "nan"
      [] x.k = "inf" -> IF x.v < 0 THEN "-inf" ELSE "inf"
      [] OTHER ->
            LET h == RoundDiv(Abs(x.v), 10)
            IN  (IF x.v < 0 THEN "-" ELSE "") \o ToString(h \div 100)
                    \o "." \o Digits2(h % 100)

\* f"{x}": repr(x), the shortest decimal that reads back as x
Repr(x) ==
    CASE x.k = "nan" -> "nan"
      [] x.k = "inf" -> IF x.v < 0 THEN "-inf" ELSE "inf"
      [] OTHER ->
            LET a == Abs(x.v)
                f == a % 1000
            IN  (IF x.v < 0 THEN "-" ELSE "") \o ToString(a \div 1000) \o "."
                    \o (IF f % 100 = 0 THEN ToString(f \div 100)
                        ELSE IF f % 10 = 0 THEN Digits2(f \div 10)
                        ELSE Digits3(f))

(***************************************************************************)
(* The converter applied to sample arguments: each behaviour draws one     *)
(* argument and applies the static methods to it.                          *)
(***************************************************************************)
Scales == {"C", "F", "c", "K", ""}

TestPoints == {Deg(0), Deg(100), Deg(-40), Deg(32), Deg(212), Deg(37), Deg(25), 98600}

HarnessInputs ==
    {Fin(b + d) : b \in {CelsiusMin, CelsiusMax, FahrenheitMin, FahrenheitMax, 0},
                  d \in -Window..Window}
    \cup {Fin(t) : t \in TestPoints}
    \cup {Fin(s * (MaxFloat - d)) : s \in {-1, 1}, d \in 0..Window}
    \cup {Fin(s * ((MaxFloat \div 9) + d)) : s \in {-1, 1}, d \in -Window..Window}
    \cup {NaN, PosInf, NegInf}

Returned(x) == [val |-> x, err |-> NoError]

NoReturn == Returned(NaN)

Unbound == [k |-> "unbound", v |-> 0]

NothingRead == [kind |-> "none", text |-> <<>>]

ShellIdle ==
    /\ pc = "Constructed"
    /\ viaMain = FALSE
    /\ choice = 0
    /\ celsius = Unbound
    /\ fahrenheit = Unbound
    /\ output = <<>>
    /\ log = <<>>
    /\ exitStatus = <<>>
    /\ console = NothingRead
    /\ nreads = 0
    /\ menuRetries = 0
    /\ numRetries = 0

HarnessIdle ==
    /\ op = "none"
    /\ arg = NaN
    /\ scale = ""
    /\ ret = NoReturn

HarnessInit ==
    /\ ShellIdle
    /\ op = "none"
    /\ arg \in HarnessInputs
    /\ scale = ""
    /\ ret = NoReturn

CallCelsiusToFahrenheit ==
    /\ op = "none"
    /\ op' = "celsius_to_fahrenheit"
    /\ ret' = Returned(celsius_to_fahrenheit(arg))
    /\ UNCHANGED <<arg, scale, shellVars>>

CallFahrenheitToCelsius ==
    /\ op = "none"
    /\ op' = "fahrenheit_to_celsius"
    /\ ret' = Returned(fahrenheit_to_celsius(arg))
    /\ UNCHANGED <<arg, scale, shellVars>>

\* fahrenheit_to_celsius(celsius_to_fahrenheit(arg))
CallBackToCelsius ==
    /\ op = "celsius_to_fahrenheit"
    /\ op' = "roundtrip_c"
    /\ ret' = Returned(fahrenheit_to_celsius(ret.val))
    /\ UNCHANGED <<arg, scale, shellVars>>

\* celsius_to_fahrenheit(fahrenheit_to_celsius(arg))
CallBackToFahrenheit ==
    /\ op = "fahrenheit_to_celsius"
    /\ op' = "roundtrip_f"
    /\ ret' = Returned(celsius_to_fahrenheit(ret.val))
    /\ UNCHANGED <<arg, scale, shellVars>>

CallValidateTemperature ==
    /\ op = "none"
    /\ \E s \in Scales :
        /\ scale' = s
        /\ ret' = [val |-> NaN, err |-> validate_temperature(arg, s)]
    /\ op' = "validate_temperature"
    /\ UNCHANGED <<arg, shellVars>>

\* a conversion of arg, then validate_temperature of the result on the other
\* scale; scale records the scale of the result
CallValidateConverted ==
    /\ op = "none"
    /\ \E s \in {"C", "F"} :
        LET r == IF s = "F" THEN celsius_to_fahrenheit(arg) ELSE fahrenheit_to_celsius(arg)
        IN  /\ scale' = s
            /\ ret' = [val |-> r, err |-> validate_temperature(r, s)]
    /\ op' = "validate_converted"
    /\ UNCHANGED <<arg, shellVars>>

HarnessNext ==
    \/ CallCelsiusToFahrenheit
    \/ CallFahrenheitToCelsius
    \/ CallBackToCelsius
    \/ CallBackToFahrenheit
    \/ CallValidateTemperature
    \/ CallValidateConverted

ConverterSpec == HarnessInit /\ [][HarnessNext]_vars

(***************************************************************************)
(* TemperatureConverterApp: the interactive shell.  One step runs from one *)
(* input() call to the next: the console delivers a line, an interrupt or  *)
(* end of input, and the shell handles it up to its next prompt or exit.   *)
(***************************************************************************)
EntryPool ==
    { <<"a", "b", "c">>, <<"-">>, <<"0">>, <<"4">>, <<"1">>, <<"2">>, <<"3">>,
      <<"2", "5">>, <<"9", "8", ".", "6">>, <<"-", "3", "0", "0">>, <<"3", "0">>,
      <<"n", "a", "n">>, <<" ", "I", "n", "f">>, <<"-", "2", "7", "3", ".", "1", "5">>,
      <<"1", "e", "3">> }

Line(e) == [kind |-> "line", text |-> e]

\* float(input(prompt)) for each entry of the pool
FloatOfEntry == [e \in EntryPool |-> ParseFloat(e)]

\* display_menu()
MenuLines ==
    << "", "--- Temperature Converter ---", "1. Celsius to Fahrenheit",
       "2. Fahrenheit to Celsius", "3. Exit" >>

Goodbye == "Thank you for using Temperature Converter. Goodbye!"

LogRecord(level, msg, excInfo) == [level |-> level, msg |-> msg, exc_info |-> excInfo]

Bump(n) == IF n < MaxRetries THEN n + 1 ELSE n

InputOpen == nreads < MaxReads

\* main() entered (nothing configured yet), or the application constructed by a
\* caller that runs it without main()
Init ==
    /\ viaMain \in BOOLEAN
    /\ pc = IF viaMain THEN "Starting" ELSE "Constructed"
    /\ choice = 0
    /\ celsius = Unbound
    /\ fahrenheit = Unbound
    /\ output = <<>>
    /\ log = <<>>
    /\ exitStatus = <<>>
    /\ console = NothingRead
    /\ nreads = 0
    /\ menuRetries = 0
    /\ numRetries = 0
    /\ HarnessIdle

\* main(): logging.basicConfig and TemperatureConverterApp(logger) succeed
ConfigureAndConstruct ==
    /\ pc = "Starting"
    /\ pc' = "Constructed"
    /\ UNCHANGED <<viaMain, choice, celsius, fahrenheit, output, log, exitStatus, console,
                   nreads, menuRetries, numRetries, harnessVars>>

\* main(): logging.FileHandler cannot open temperature_converter.log; the
\* exception is raised before main()'s try and ends the process with a
\* traceback, status 1
LoggingSetupFails ==
    /\ pc = "Starting"
    /\ pc' = "Exited"
    /\ exitStatus' = <<1>>
    /\ UNCHANGED <<viaMain, choice, celsius, fahrenheit, output, log, console,
                   nreads, menuRetries, numRetries, harnessVars>>

\* main(): TemperatureConverterApp(logger) raises; main()'s except Exception
\* logs it as critical and exits 1
ConstructionFails ==
    /\ pc = "Starting"
    /\ log' = Append(log, LogRecord("CRITICAL",
                        "Critical error in application: construction failed", TRUE))
    /\ pc' = "Exited"
    /\ exitStatus' = <<1>>
    /\ UNCHANGED <<viaMain, choice, celsius, fahrenheit, output, console,
                   nreads, menuRetries, numRetries, harnessVars>>

\* run() entered: the first display_menu(), then the menu prompt
StartRun ==
    /\ pc = "Constructed"
    /\ pc' = "MenuPrompt"
    /\ output' = output \o MenuLines
    /\ UNCHANGED <<viaMain, choice, celsius, fahrenheit, log, exitStatus, console,
                   nreads, menuRetries, numRetries, harnessVars>>

\* a slip: the range test lets 4 through
get_valid_menu_choice_wide(e) ==
    LET p == ParseInt(e)
    IN  IF ~p.ok
        THEN [choice |-> 0, line |-> "Error: Please enter a number between 1 and 3."]
        ELSE IF 1 <= p.val /\ p.val <= 4
        THEN [choice |-> p.val, line |-> ""]
        ELSE [choice |-> 0, line |-> "Invalid choice. Please select 1, 2, or 3."]

\* what get_valid_menu_choice does with one entry: the choice it returns
\* (0: none, it prompts again) and the line it prints
get_valid_menu_choice(e) ==
    LET p == ParseInt(e)
    IN  IF ~p.ok
        THEN [choice |-> 0, line |-> "Error: Please enter a number between 1 and 3."]
        ELSE IF 1 <= p.val /\ p.val <= 3
        THEN [choice |-> p.val, line |-> ""]
        ELSE [choice |-> 0, line |-> "Invalid choice. Please select 1, 2, or 3."]

\* a slip: a retry budget, the prompt gives up after MaxRetries rejections
MenuRetry_bounded(e) ==
    /\ pc = "MenuPrompt"
    /\ InputOpen
    /\ get_valid_menu_choice(e).choice = 0
    /\ console' = Line(e)
    /\ nreads' = nreads + 1
    /\ output' = Append(output, get_valid_menu_choice(e).line)
    /\ menuRetries' = Bump(menuRetries)
    /\ pc' = IF menuRetries + 1 >= MaxRetries THEN "Exited" ELSE pc
    /\ exitStatus' = IF menuRetries + 1 >= MaxRetries THEN <<1>> ELSE exitStatus
    /\ UNCHANGED <<viaMain, choice, celsius, fahrenheit, log, numRetries, harnessVars>>

\* an entry the menu prompt rejects: the message, and the prompt again
MenuRetry(e) ==
    /\ pc = "MenuPrompt"
    /\ InputOpen
    /\ get_valid_menu_choice(e).choice = 0
    /\ console' = Line(e)
    /\ nreads' = nreads + 1
    /\ output' = Append(output, get_valid_menu_choice(e).line)
    /\ menuRetries' = Bump(menuRetries)
    /\ UNCHANGED <<pc, viaMain, choice, celsius, fahrenheit, log, exitStatus,
                   numRetries, harnessVars>>

\* a slip: the break is missing, the loop goes on after the goodbye line
ChooseExit_no_break(e) ==
    /\ pc = "MenuPrompt"
    /\ InputOpen
    /\ get_valid_menu_choice(e).choice = 3
    /\ console' = Line(e)
    /\ nreads' = nreads + 1
    /\ choice' = 3
    /\ output' = Append(output, Goodbye) \o MenuLines
    /\ menuRetries' = 0
    /\ UNCHANGED <<pc, viaMain, celsius, fahrenheit, log, exitStatus, numRetries,
                   harnessVars>>

\* choice 3: the goodbye line and the break; run() and the process end
ChooseExit(e) ==
    /\ pc = "MenuPrompt"
    /\ InputOpen
    /\ get_valid_menu_choice(e).choice = 3
    /\ console' = Line(e)
    /\ nreads' = nreads + 1
    /\ choice' = 3
    /\ output' = Append(output, Goodbye)
    /\ pc' = "Terminated"
    /\ exitStatus' = <<0>>
    /\ menuRetries' = 0
    /\ UNCHANGED <<viaMain, celsius, fahrenheit, log, numRetries, harnessVars>>

\* a choice other than 3: choice 1 or 2 goes on to the numeric prompt of that
\* conversion; run() has no branch for any other value and loops to the menu
ChooseConversion(e) ==
    LET c == get_valid_menu_choice(e).choice
    IN  /\ pc = "MenuPrompt"
        /\ InputOpen
        /\ c \notin {0, 3}
        /\ console' = Line(e)
        /\ nreads' = nreads + 1
        /\ choice' = c
        /\ pc' = IF c \in {1, 2} THEN "AwaitingInput" ELSE "MenuPrompt"
        /\ output' = IF c \in {1, 2} THEN output ELSE output \o MenuLines
        /\ menuRetries' = 0
        /\ numRetries' = 0
        /\ UNCHANGED <<viaMain, celsius, fahrenheit, log, exitStatus, harnessVars>>

\* a slip: the parse failure is logged as an error
NumericRetry_logged(e) ==
    /\ pc = "AwaitingInput"
    /\ InputOpen
    /\ ~ParseFloat(e).ok
    /\ console' = Line(e)
    /\ nreads' = nreads + 1
    /\ output' = Append(output, "Error: Please enter a valid number.")
    /\ log' = Append(log, LogRecord("ERROR", "Invalid number", FALSE))
    /\ numRetries' = Bump(numRetries)
    /\ UNCHANGED <<pc, viaMain, choice, celsius, fahrenheit, exitStatus,
                   menuRetries, harnessVars>>

\* an entry float() rejects: the message, and the numeric prompt again
NumericRetry(e) ==
    /\ pc = "AwaitingInput"
    /\ InputOpen
    /\ ~FloatOfEntry[e].ok
    /\ console' = Line(e)
    /\ nreads' = nreads + 1
    /\ output' = Append(output, "Error: Please enter a valid number.")
    /\ numRetries' = Bump(numRetries)
    /\ UNCHANGED <<pc, viaMain, choice, celsius, fahrenheit, log, exitStatus,
                   menuRetries, harnessVars>>

ScaleOf(c) == IF c = 1 THEN "C" ELSE "F"

\* str(e) of the exception validate_temperature raises
ErrorMessage(err) == "Invalid " \o err.scale \o " temperature: " \o Repr(err.temp)

\* a slip: the format spec is missing, the floats are printed by repr
ResultLine_unformatted(c, cel, fah) ==
    IF c = 1
    THEN Repr(cel) \o "°C = " \o Repr(fah) \o "°F"
    ELSE Repr(fah) \o "°F = " \o Repr(cel) \o "°C"

\* the line printed after a conversion: choice 1 or choice 2
ResultLine(c, cel, fah) ==
    IF c = 1
    THEN Format2f(cel) \o "°C = " \o Format2f(fah) \o "°F"
    ELSE Format2f(fah) \o "°F = " \o Format2f(cel) \o "°C"

\* the record logged after a conversion
ConvertedRecord(c, cel, fah) ==
    IF c = 1
    THEN LogRecord("INFO", "Converted " \o Repr(cel) \o "°C to " \o Repr(fah) \o "°F", FALSE)
    ELSE LogRecord("INFO", "Converted " \o Repr(fah) \o "°F to " \o Repr(cel) \o "°C", FALSE)

\* a slip: the conversion is printed but not logged
Convert_unlogged(e) ==
    LET x == ParseFloat(e).val
        cel == IF choice = 1 THEN x ELSE fahrenheit_to_celsius(x)
        fah == IF choice = 1 THEN celsius_to_fahrenheit(x) ELSE x
    IN  /\ pc = "AwaitingInput"
        /\ InputOpen
        /\ ParseFloat(e).ok
        /\ ~validate_temperature(x, ScaleOf(choice)).raised
        /\ console' = Line(e)
        /\ nreads' = nreads + 1
        /\ celsius' = cel
        /\ fahrenheit' = fah
        /\ output' = Append(output, ResultLine(choice, cel, fah)) \o MenuLines
        /\ pc' = "MenuPrompt"
        /\ numRetries' = 0
        /\ UNCHANGED <<viaMain, choice, log, exitStatus, menuRetries, harnessVars>>

\* the numeric prompt returns x: validation passes, the conversion is printed
\* and logged, and the loop shows the menu again
Convert(e) ==
    LET x == FloatOfEntry[e].val
        cel == IF choice = 1 THEN x ELSE fahrenheit_to_celsius(x)
        fah == IF choice = 1 THEN celsius_to_fahrenheit(x) ELSE x
    IN  /\ pc = "AwaitingInput"
        /\ InputOpen
        /\ FloatOfEntry[e].ok
        /\ ~validate_temperature(x, ScaleOf(choice)).raised
        /\ console' = Line(e)
        /\ nreads' = nreads + 1
        /\ celsius' = cel
        /\ fahrenheit' = fah
        /\ output' = Append(output, ResultLine(choice, cel, fah)) \o MenuLines
        /\ log' = Append(log, ConvertedRecord(choice, cel, fah))
        /\ pc' = "MenuPrompt"
        /\ numRetries' = 0
        /\ UNCHANGED <<viaMain, choice, exitStatus, menuRetries, harnessVars>>

\* a slip: the range error is not caught in the loop and ends the process
RejectTemperature_fatal(e) ==
    LET x == ParseFloat(e).val
        err == validate_temperature(x, ScaleOf(choice))
    IN  /\ pc = "AwaitingInput"
        /\ InputOpen
        /\ ParseFloat(e).ok
        /\ err.raised
        /\ console' = Line(e)
        /\ nreads' = nreads + 1
        /\ celsius' = IF choice = 1 THEN x ELSE celsius
        /\ fahrenheit' = IF choice = 2 THEN x ELSE fahrenheit
        /\ log' = Append(log, LogRecord("CRITICAL",
                            "Critical error in application: " \o ErrorMessage(err), TRUE))
        /\ pc' = "Exited"
        /\ exitStatus' = <<1>>
        /\ UNCHANGED <<viaMain, choice, output, menuRetries, numRetries, harnessVars>>

\* a slip: a range error asks for the value again instead of showing the menu
RejectTemperature_reprompt(e) ==
    LET x == FloatOfEntry[e].val
        err == validate_temperature(x, ScaleOf(choice))
    IN  /\ pc = "AwaitingInput"
        /\ InputOpen
        /\ FloatOfEntry[e].ok
        /\ err.raised
        /\ console' = Line(e)
        /\ nreads' = nreads + 1
        /\ celsius' = IF choice = 1 THEN x ELSE celsius
        /\ fahrenheit' = IF choice = 2 THEN x ELSE fahrenheit
        /\ output' = Append(output, "Conversion Error: " \o ErrorMessage(err))
        /\ log' = Append(log, LogRecord("ERROR",
                            "Temperature conversion error: " \o ErrorMessage(err), FALSE))
        /\ numRetries' = Bump(numRetries)
        /\ UNCHANGED <<pc, viaMain, choice, exitStatus, menuRetries, harnessVars>>

\* the numeric prompt returns x and validation raises: the error is printed
\* and logged, nothing is converted, and the loop shows the menu again
RejectTemperature(e) ==
    LET x == FloatOfEntry[e].val
        err == validate_temperature(x, ScaleOf(choice))
    IN  /\ pc = "AwaitingInput"
        /\ InputOpen
        /\ FloatOfEntry[e].ok
        /\ err.raised
        /\ console' = Line(e)
        /\ nreads' = nreads + 1
        /\ celsius' = IF choice = 1 THEN x ELSE celsius
        /\ fahrenheit' = IF choice = 2 THEN x ELSE fahrenheit
        /\ output' = Append(output, "Conversion Error: " \o ErrorMessage(err)) \o MenuLines
        /\ log' = Append(log, LogRecord("ERROR",
                            "Temperature conversion error: " \o ErrorMessage(err), FALSE))
        /\ pc' = "MenuPrompt"
        /\ numRetries' = 0
        /\ UNCHANGED <<viaMain, choice, exitStatus, menuRetries, harnessVars>>

\* a slip: the loop-level handler catches BaseException, so the SystemExit of
\* the numeric prompt is swallowed as an unexpected error
InterruptAtPrompt_swallowed ==
    /\ pc \in {"MenuPrompt", "AwaitingInput"}
    /\ InputOpen
    /\ console' = [kind |-> "KeyboardInterrupt", text |-> <<>>]
    /\ nreads' = nreads + 1
    /\ log' = IF pc = "MenuPrompt"
              THEN Append(log, LogRecord("WARNING", "Menu selection interrupted", FALSE))
              ELSE log \o << LogRecord("WARNING", "Input interrupted by user", FALSE),
                             LogRecord("ERROR", "Unexpected error: 1", TRUE) >>
    /\ output' = IF pc = "MenuPrompt"
                 THEN output \o <<"", "Operation cancelled.">>
                 ELSE output \o <<"", "Operation cancelled.",
                                  "An unexpected error occurred: 1">> \o MenuLines
    /\ pc' = IF pc = "MenuPrompt" THEN "Exited" ELSE "MenuPrompt"
    /\ exitStatus' = IF pc = "MenuPrompt" THEN <<1>> ELSE exitStatus
    /\ UNCHANGED <<viaMain, choice, celsius, fahrenheit, menuRetries, numRetries,
                   harnessVars>>

\* KeyboardInterrupt inside input() of either prompt: warning, message, sys.exit(1)
InterruptAtPrompt ==
    /\ pc \in {"MenuPrompt", "AwaitingInput"}
    /\ InputOpen
    /\ console' = [kind |-> "KeyboardInterrupt", text |-> <<>>]
    /\ nreads' = nreads + 1
    /\ log' = Append(log, LogRecord("WARNING",
                        IF pc = "MenuPrompt" THEN "Menu selection interrupted"
                        ELSE "Input interrupted by user", FALSE))
    /\ output' = output \o <<"", "Operation cancelled.">>
    /\ pc' = "Exited"
    /\ exitStatus' = <<1>>
    /\ UNCHANGED <<viaMain, choice, celsius, fahrenheit, menuRetries, numRetries,
                   harnessVars>>

\* KeyboardInterrupt in run() outside the prompts, here before the first
\* prompt is reached: message, sys.exit(0)
InterruptInLoop ==
    /\ pc = "Constructed"
    /\ output' = output \o <<"", "Application terminated by user.">>
    /\ pc' = "Exited"
    /\ exitStatus' = <<0>>
    /\ UNCHANGED <<viaMain, choice, celsius, fahrenheit, log, console, nreads,
                   menuRetries, numRetries, harnessVars>>

\* entry e has left the try block of its prompt: int() or float() raised
\* ValueError (the handler runs outside the try body) or the value was returned
LeavesPromptTry(e) ==
    IF pc = "MenuPrompt"
    THEN ~ParseInt(e).ok \/ get_valid_menu_choice(e).choice # 0
    ELSE TRUE

\* KeyboardInterrupt in run() while entry e is handled, once the prompt's try
\* block is left and before anything else is done: message, sys.exit(0)
InterruptAfterEntry(e) ==
    /\ pc \in {"MenuPrompt", "AwaitingInput"}
    /\ InputOpen
    /\ LeavesPromptTry(e)
    /\ console' = [kind |-> "line+KeyboardInterrupt", text |-> e]
    /\ nreads' = nreads + 1
    /\ output' = output \o <<"", "Application terminated by user.">>
    /\ pc' = "Exited"
    /\ exitStatus' = <<0>>
    /\ UNCHANGED <<viaMain, choice, celsius, fahrenheit, log, menuRetries, numRetries,
                   harnessVars>>

\* a slip: no except Exception in the loop, EOFError leaves run() as it does
\* at the menu prompt
EndOfInputAtNumericPrompt_fatal ==
    /\ pc = "AwaitingInput"
    /\ InputOpen
    /\ console' = [kind |-> "EOFError", text |-> <<>>]
    /\ nreads' = nreads + 1
    /\ log' = IF viaMain
              THEN Append(log, LogRecord("CRITICAL",
                        "Critical error in application: EOF when reading a line", TRUE))
              ELSE log
    /\ pc' = "Exited"
    /\ exitStatus' = <<1>>
    /\ UNCHANGED <<viaMain, choice, celsius, fahrenheit, output, menuRetries,
                   numRetries, harnessVars>>

\* end of input at the numeric prompt: EOFError reaches run()'s except
\* Exception, is printed and logged, and the loop shows the menu again
EndOfInputAtNumericPrompt ==
    /\ pc = "AwaitingInput"
    /\ InputOpen
    /\ console' = [kind |-> "EOFError", text |-> <<>>]
    /\ nreads' = nreads + 1
    /\ output' = Append(output, "An unexpected error occurred: EOF when reading a line")
                    \o MenuLines
    /\ log' = Append(log, LogRecord("ERROR",
                        "Unexpected error: EOF when reading a line", TRUE))
    /\ pc' = "MenuPrompt"
    /\ numRetries' = 0
    /\ UNCHANGED <<viaMain, choice, celsius, fahrenheit, exitStatus, menuRetries,
                   harnessVars>>

\* end of input at the menu prompt: EOFError leaves run(); main() logs it as
\* critical and exits 1, and without main() the traceback ends the process
EndOfInputAtMenuPrompt ==
    /\ pc = "MenuPrompt"
    /\ InputOpen
    /\ console' = [kind |-> "EOFError", text |-> <<>>]
    /\ nreads' = nreads + 1
    /\ log' = IF viaMain
              THEN Append(log, LogRecord("CRITICAL",
                        "Critical error in application: EOF when reading a line", TRUE))
              ELSE log
    /\ pc' = "Exited"
    /\ exitStatus' = <<1>>
    /\ UNCHANGED <<viaMain, choice, celsius, fahrenheit, output, menuRetries,
                   numRetries, harnessVars>>

Next ==
    \/ ConfigureAndConstruct
    \/ LoggingSetupFails
    \/ ConstructionFails
    \/ StartRun
    \/ \E e \in EntryPool : MenuRetry(e)
    \/ \E e \in EntryPool : ChooseExit(e)
    \/ \E e \in EntryPool : ChooseConversion(e)
    \/ \E e \in EntryPool : NumericRetry(e)
    \/ \E e \in EntryPool : Convert(e)
    \/ \E e \in EntryPool : RejectTemperature(e)
    \/ InterruptAtPrompt
    \/ InterruptInLoop
    \/ \E e \in EntryPool : InterruptAfterEntry(e)
    \/ EndOfInputAtNumericPrompt
    \/ EndOfInputAtMenuPrompt

Spec == Init /\ [][Next]_vars

(***************************************************************************)
(* The shell with a user who cooperates: the program takes its own steps,  *)
(* a value prompt eventually receives an entry float() accepts, and a menu  *)
(* prompt eventually receives 3.  The entries of the console are budgeted   *)
(* so that the entry that ends an attempt, and the 3 that ends the loop,    *)
(* are always still available: a rejected entry or a new attempt is taken   *)
(* only while that many entries remain beyond it.                           *)
(***************************************************************************)
EntriesRemainBeyond(n) == nreads < MaxReads - n

\* the entries this user types: a rejected one, the three choices, an unknown
\* choice, a value in range and a value out of range
CooperativePool ==
    { <<"a", "b", "c">>, <<"4">>, <<"1">>, <<"2">>, <<"3">>, <<"2", "5">>,
      <<"-", "3", "0", "0">> }

ValidNumericEntry == \E e \in CooperativePool : Convert(e) \/ RejectTemperature(e)

ExitChosen == \E e \in CooperativePool : ChooseExit(e)

FairNext ==
    \/ ConfigureAndConstruct
    \/ LoggingSetupFails
    \/ ConstructionFails
    \/ StartRun
    \/ \E e \in CooperativePool : EntriesRemainBeyond(1) /\ MenuRetry(e)
    \/ \E e \in CooperativePool : ChooseExit(e)
    \/ \E e \in CooperativePool : EntriesRemainBeyond(2) /\ ChooseConversion(e)
    \/ \E e \in CooperativePool : EntriesRemainBeyond(2) /\ NumericRetry(e)
    \/ \E e \in CooperativePool : Convert(e)
    \/ \E e \in CooperativePool : RejectTemperature(e)
    \/ InterruptAtPrompt
    \/ InterruptInLoop
    \/ \E e \in CooperativePool : InterruptAfterEntry(e)
    \/ EndOfInputAtNumericPrompt
    \/ EndOfInputAtMenuPrompt

FairSpec ==
    /\ Init
    /\ [][FairNext]_vars
    /\ WF_vars(ConfigureAndConstruct \/ StartRun)
    /\ WF_vars(ValidNumericEntry)
    /\ WF_vars(ExitChosen)

(***************************************************************************)
(* Claims about the converter (checked under ConverterSpec).               *)
(***************************************************************************)
\* lo <= x <= hi over the reals: no non-finite value lies in a closed interval
InClosedInterval(x, lo, hi) == IsFinite(x) /\ lo <= x.v /\ x.v <= hi

\* C1: validate_temperature succeeds if and only if the value lies in the
\* closed interval of its scale, [-273.15, 1000] for 'C' and [-459.67, 1832]
\* for 'F'; every value outside raises TemperatureConversionError.
C1_AcceptsExactlyClosedIntervals ==
    op = "validate_temperature" =>
        /\ scale = "C" =>
            (~ret.err.raised <=> InClosedInterval(arg, CelsiusMin, CelsiusMax))
        /\ scale = "F" =>
            (~ret.err.raised <=> InClosedInterval(arg, FahrenheitMin, FahrenheitMax))

\* r is what (x * 9/5) + 32 evaluates to, stated without the float operators:
\* the representable value nearest to the real quotient plus 32, an infinity
\* once the product leaves the float range, and nan for nan.
IsNineFifthsPlus32(x, r) ==
    CASE x.k = "nan" -> r = NaN
      [] x.k = "inf" -> r = x
      [] OTHER ->
            IF Abs(9 * x.v) > MaxFloat
            THEN r = (IF x.v > 0 THEN PosInf ELSE NegInf)
            ELSE IsFinite(r) /\ 2 * Abs(5 * (r.v - Deg(32)) - 9 * x.v) <= 5

\* r is what (x - 32) * 5/9 evaluates to, stated the same way
IsMinus32FiveNinths(x, r) ==
    CASE x.k = "nan" -> r = NaN
      [] x.k = "inf" -> r = x
      [] OTHER ->
            IF Abs(5 * (x.v - Deg(32))) > MaxFloat
            THEN r = (IF x.v > 0 THEN PosInf ELSE NegInf)
            ELSE IsFinite(r) /\ 2 * Abs(9 * r.v - 5 * (x.v - Deg(32))) <= 9

\* C2: for every float argument both conversions return a value and raise
\* nothing; celsius_to_fahrenheit(c) is c*9/5 + 32 and fahrenheit_to_celsius(f)
\* is (f - 32)*5/9; 0, 100, -40 map to 32, 212, -40 and back.
C2_ConversionFormulas ==
    /\ op = "celsius_to_fahrenheit" =>
        /\ ret.err = NoError
        /\ IsNineFifthsPlus32(arg, ret.val)
        /\ arg = Fin(Deg(0)) => ret.val = Fin(Deg(32))
        /\ arg = Fin(Deg(100)) => ret.val = Fin(Deg(212))
        /\ arg = Fin(Deg(-40)) => ret.val = Fin(Deg(-40))
    /\ op = "fahrenheit_to_celsius" =>
        /\ ret.err = NoError
        /\ IsMinus32FiveNinths(arg, ret.val)
        /\ arg = Fin(Deg(32)) => ret.val = Fin(Deg(0))
        /\ arg = Fin(Deg(212)) => ret.val = Fin(Deg(100))
        /\ arg = Fin(Deg(-40)) => ret.val = Fin(Deg(-40))

C2_Witness ==
    /\ op = "fahrenheit_to_celsius"
    /\ arg = Fin(Deg(212))
    /\ ret = Returned(Fin(Deg(100)))

WithinTolerance(x, y) == IsFinite(x) /\ IsFinite(y) /\ Abs(x.v - y.v) <= Tol

\* C3 as stated: for every finite argument the round trip, in either
\* direction, gives the argument back within the tolerance.
C3_RoundTripEveryFinite ==
    (op \in {"roundtrip_c", "roundtrip_f"} /\ IsFinite(arg)) =>
        WithinTolerance(ret.val, arg)

\* C3 amended: for every finite argument whose round trip overflows nowhere
\* (its result is finite), the round trip, in either direction, gives the
\* argument back within the tolerance.
C3_RoundTripWithoutOverflow ==
    (op \in {"roundtrip_c", "roundtrip_f"} /\ IsFinite(arg) /\ IsFinite(ret.val)) =>
        WithinTolerance(ret.val, arg)

\* a round trip that needs the tolerance: the result is one step off
C3_Witness ==
    /\ op = "roundtrip_f"
    /\ IsFinite(arg)
    /\ IsFinite(ret.val)
    /\ ret.val # arg
    /\ WithinTolerance(ret.val, arg)

(***************************************************************************)
(* Claims about the shell (checked under Spec).                            *)
(***************************************************************************)
\* this step read a line at the menu prompt / at the numeric prompt
MenuLineRead == pc = "MenuPrompt" /\ nreads' = nreads + 1 /\ console'.kind = "line"

NumericLineRead == pc = "AwaitingInput" /\ nreads' = nreads + 1 /\ console'.kind = "line"

\* this step printed a conversion result (and logged it at info level)
ConversionLogged == Len(log') = Len(log) + 1 /\ log'[Len(log')].level = "INFO"

\* x lies within the inclusive bounds of the scale of menu choice c
WithinBoundsOf(c, x) ==
    IF c = 1 THEN InClosedInterval(x, CelsiusMin, CelsiusMax)
    ELSE InClosedInterval(x, FahrenheitMin, FahrenheitMax)

EndsWithMenu(out) ==
    Len(out) >= Len(MenuLines) /\ SubSeq(out, Len(out) - Len(MenuLines) + 1, Len(out)) = MenuLines

\* C4: a value is converted (its result printed) only if it lies within the
\* inclusive bounds of the scale of the chosen menu entry, for every value
\* the numeric prompt can return, the non-finite ones included.
C4_ConvertedOnlyWithinBounds ==
    [][ConversionLogged =>
            /\ choice \in {1, 2}
            /\ WithinBoundsOf(choice, IF choice = 1 THEN celsius' ELSE fahrenheit')]_vars

C6_RangeErrorReturnsToMenu ==
    [][(NumericLineRead /\ ParseFloat(console'.text).ok
            /\ validate_temperature(ParseFloat(console'.text).val, ScaleOf(choice)).raised) =>
        LET x == ParseFloat(console'.text).val
            name == IF choice = 1 THEN "Celsius" ELSE "Fahrenheit"
            msg == "Invalid " \o name \o " temperature: " \o Repr(x)
        IN  /\ output' = Append(output, "Conversion Error: " \o msg) \o MenuLines
            /\ log' = Append(log, LogRecord("ERROR", "Temperature conversion error: " \o msg, FALSE))
            /\ pc' = "MenuPrompt"
            /\ exitStatus' = <<>>
            /\ choice = 1 => fahrenheit' = fahrenheit
            /\ choice = 2 => celsius' = celsius
            /\ (choice = 1 /\ console'.text = <<"-", "3", "0", "0">>)
                    => msg = "Invalid Celsius temperature: -300.0"]_vars

C6_Witness ==
    /\ pc = "MenuPrompt"
    /\ choice = 1
    /\ console = Line(<<"-", "3", "0", "0">>)
    /\ output = MenuLines \o <<"Conversion Error: Invalid Celsius temperature: -300.0">>
                    \o MenuLines
    /\ exitStatus = <<>>

CountOf(out, line) == Cardinality({i \in 1..Len(out) : out[i] = line})

\* C7: choice 3 takes the shell to Terminated: the goodbye line is printed
\* exactly once and last, the exit status is 0 with and without main(), and
\* nothing is read, printed or converted afterwards.
C7_ChoiceThreeTerminates ==
    /\ [](pc = "Terminated" =>
            /\ exitStatus = <<0>>
            /\ CountOf(output, Goodbye) = 1
            /\ output[Len(output)] = Goodbye)
    /\ [][(MenuLineRead /\ ParseInt(console'.text) = [ok |-> TRUE, val |-> 3]) =>
            /\ pc' = "Terminated"
            /\ output' = Append(output, Goodbye)
            /\ log' = log]_vars
    /\ [][pc # "Terminated"]_vars

C7_Witness ==
    /\ pc = "Terminated"
    /\ viaMain
    /\ console = Line(<<"3">>)
    /\ exitStatus = <<0>>

\* C8: get_valid_menu_choice returns only 1, 2 or 3, the value of the first
\* entry that parses as one of them; an entry before it only prints a message
\* and prompts again, so the run is the one without the rejected entries
\* (abc, -, 2, 98.6, 3 prints 98.60°F = 37.00°C and exits).
C8_MenuChoiceFirstValidEntry ==
    /\ [](/\ choice \in {0, 1, 2, 3}
          /\ pc = "AwaitingInput" => choice \in {1, 2}
          /\ pc = "Terminated" => choice = 3)
    /\ [][MenuLineRead =>
            LET p == ParseInt(console'.text)
            IN  IF p.ok /\ p.val \in {1, 2, 3}
                THEN /\ choice' = p.val
                     /\ pc' = (IF p.val = 3 THEN "Terminated" ELSE "AwaitingInput")
                ELSE /\ pc' = "MenuPrompt"
                     /\ Len(output') = Len(output) + 1
                     /\ SubSeq(output', 1, Len(output)) = output
                     /\ output'[Len(output')] \in
                            {"Error: Please enter a number between 1 and 3.",
                             "Invalid choice. Please select 1, 2, or 3."}
                     /\ UNCHANGED <<viaMain, choice, celsius, fahrenheit, log,
                                    exitStatus, numRetries>>]_vars

\* the entries abc, -, 2, 98.6, 3
C8_Witness ==
    /\ pc = "Terminated"
    /\ nreads = 5
    /\ output = MenuLines
                    \o << "Error: Please enter a number between 1 and 3.",
                          "Error: Please enter a number between 1 and 3.",
                          "98.60°F = 37.00°C" >>
                    \o MenuLines \o <<Goodbye>>

\* C9: an entry float() rejects only prints the message and prompts again,
\* however many came before: no error reaches run(), the process goes on,
\* nothing is logged; the first entry float() accepts is the value returned
\* (abc, -, 30 returns 30).
C9_ParseErrorRecoveredLocally ==
    [][NumericLineRead =>
        LET p == ParseFloat(console'.text)
        IN  IF ~p.ok
            THEN /\ pc' = "AwaitingInput"
                 /\ output' = Append(output, "Error: Please enter a valid number.")
                 /\ numRetries' = Bump(numRetries)
                 /\ UNCHANGED <<viaMain, choice, celsius, fahrenheit, log, exitStatus>>
            ELSE /\ pc' = "MenuPrompt"
                 /\ choice = 1 => celsius' = p.val
                 /\ choice = 2 => fahrenheit' = p.val
                 /\ (choice = 1 /\ console'.text = <<"3", "0">>) => celsius' = Fin(Deg(30))]_vars

\* two rejected entries, then 30 returned and converted
C9_Witness ==
    /\ pc = "MenuPrompt"
    /\ choice = 1
    /\ console = Line(<<"3", "0">>)
    /\ celsius = Fin(Deg(30))
    /\ log = <<LogRecord("INFO", "Converted 30.0°C to 86.0°F", FALSE)>>
    /\ output = MenuLines
                    \o << "Error: Please enter a valid number.",
                          "Error: Please enter a valid number.",
                          "30.00°C = 86.00°F" >>
                    \o MenuLines

\* C10 as stated: the menu prompt is a bounded-retry loop, it stops prompting
\* after some number of consecutive rejected entries (here: before the
\* largest count the model tells apart).
C10_MenuRetriesBounded == pc = "MenuPrompt" => menuRetries < MaxRetries

\* C10 amended: the menu prompt retries without bound: after any number of
\* consecutive rejected entries a further rejected entry leaves the shell at
\* the menu prompt, running, exactly as the numeric prompt does.
C10_MenuRetriesUnbounded ==
    [][(MenuLineRead /\ get_valid_menu_choice(console'.text).choice = 0) =>
            /\ pc' = "MenuPrompt"
            /\ exitStatus' = <<>>
            /\ menuRetries' = Bump(menuRetries)]_vars

C10_Witness ==
    /\ pc = "MenuPrompt"
    /\ menuRetries = MaxRetries
    /\ exitStatus = <<>>

\* this step raised KeyboardInterrupt inside input() / elsewhere in run()'s loop
InterruptedAtPrompt ==
    pc \in {"MenuPrompt", "AwaitingInput"} /\ console'.kind = "KeyboardInterrupt"

InterruptedInLoop ==
    \/ pc = "Constructed" /\ pc' = "Exited"
    \/ pc \in {"MenuPrompt", "AwaitingInput"} /\ console'.kind = "line+KeyboardInterrupt"

C12_UnexpectedErrorNotFatal ==
    /\ []((pc = "AwaitingInput" /\ InputOpen) => ENABLED EndOfInputAtNumericPrompt)
    /\ [][(pc = "AwaitingInput" /\ console'.kind = "EOFError") =>
            /\ pc' = "MenuPrompt"
            /\ exitStatus' = <<>>
            /\ output' = Append(output, "An unexpected error occurred: EOF when reading a line")
                            \o MenuLines
            /\ log' = Append(log, LogRecord("ERROR",
                                "Unexpected error: EOF when reading a line", TRUE))
            /\ UNCHANGED <<choice, celsius, fahrenheit>>]_vars

\* end of input at the numeric prompt, then a conversion in the same run
C12_Witness ==
    /\ pc = "MenuPrompt"
    /\ exitStatus = <<>>
    /\ Len(log) = 2
    /\ log[1] = LogRecord("ERROR", "Unexpected error: EOF when reading a line", TRUE)
    /\ log[2].level = "INFO"

CountLevel(l, level) == Cardinality({i \in 1..Len(l) : l[i].level = level})

\* the process ended with status 1 for another reason than an interrupt
\* inside a prompt: an error that reached the top level
TopLevelError ==
    pc = "Exited" /\ exitStatus = <<1>> /\ console.kind # "KeyboardInterrupt"

\* C13: under main(), an error that is no interrupt and is raised outside a
\* conversion attempt (during initialization, or by the console read of the
\* menu prompt) is logged by main() exactly once, at critical severity, as
\* the last record, and the process exits with status 1; status 1 arises in
\* no other way than this and an interrupt inside a prompt.
C13_TopLevelErrorLoggedCritical ==
    /\ (viaMain /\ TopLevelError) =>
            /\ CountLevel(log, "CRITICAL") = 1
            /\ log[Len(log)].level = "CRITICAL"
    /\ (viaMain /\ exitStatus = <<1>>) =>
            \/ console.kind \in {"KeyboardInterrupt", "EOFError"}
            \/ (nreads = 0 /\ log # <<>>)

\* the floats the entries of the pool parse to
PoolValues == {ParseFloat(e).val : e \in {x \in EntryPool : ParseFloat(x).ok}}

\* the lines a conversion, a range error and an unexpected error print
ResultLineSet ==
    {Format2f(x) \o "°C = " \o Format2f(celsius_to_fahrenheit(x)) \o "°F" : x \in PoolValues}
    \cup {Format2f(x) \o "°F = " \o Format2f(fahrenheit_to_celsius(x)) \o "°C" : x \in PoolValues}

RangeErrorLineSet ==
    {"Conversion Error: Invalid " \o n \o " temperature: " \o Repr(x) :
        n \in {"Celsius", "Fahrenheit"}, x \in PoolValues}

UnexpectedErrorLineSet == {"An unexpected error occurred: EOF when reading a line"}

CountIn(out, lines) == Cardinality({i \in 1..Len(out) : out[i] \in lines})

C15_RangesCorrespond ==
    op = "validate_converted" =>
        /\ scale = "F" => (ret.err.raised <=> validate_temperature(arg, "C").raised)
        /\ scale = "C" => (ret.err.raised <=> validate_temperature(arg, "F").raised)

\* the two ends of the Celsius range land on the two ends of the Fahrenheit
\* range, and the values next to them are rejected on both scales
C15_Witness ==
    /\ op = "validate_converted"
    /\ scale = "F"
    /\ \/ arg = Fin(CelsiusMax) /\ ret = Returned(Fin(FahrenheitMax))
       \/ arg = Fin(CelsiusMin) /\ ret = Returned(Fin(FahrenheitMin))
       \/ arg = Fin(CelsiusMax + 1) /\ ret.err.raised
       \/ arg = Fin(CelsiusMin - 1) /\ ret.err.raised

\* C16: validate_temperature changes nothing; with a scale tag other than
\* exactly C or F it returns for every value; it raises only for C and F, and
\* the message names that scale and the value.
C16_OtherScalesPass ==
    /\ [](op = "validate_temperature" =>
            /\ scale \notin {"C", "F"} => ret.err = NoError
            /\ ret.err.raised =>
                /\ scale \in {"C", "F"}
                /\ ErrorMessage(ret.err) =
                      "Invalid " \o (IF scale = "C" THEN "Celsius" ELSE "Fahrenheit")
                          \o " temperature: " \o Repr(arg))
    /\ [][op' = "validate_temperature" => UNCHANGED <<arg, shellVars>>]_vars

\* a value outside both ranges passes with the tags c, K and the empty tag
C16_Witness ==
    /\ op = "validate_temperature"
    /\ scale \in {"c", "K", ""}
    /\ arg \in {Fin(CelsiusMin - 1), Fin(FahrenheitMax + 1), PosInf}
    /\ ret.err = NoError

\* C17: with a user who eventually supplies a valid entry, every conversion
\* attempt eventually leaves AwaitingInput for MenuPrompt or the end of the
\* process, and goes nowhere else; with a user who eventually chooses 3 the
\* shell ends; the loop ends normally (Terminated) only in a step that read
\* choice 3 at the menu, never in a step that read a numeric entry.
C17_ProgressAndNormalEnd ==
    /\ (pc = "AwaitingInput") ~> (pc \in {"MenuPrompt", "Exited"})
    /\ (pc = "MenuPrompt") ~> (pc \in {"Terminated", "Exited"})
    /\ [][pc = "AwaitingInput" => pc' \in {"AwaitingInput", "MenuPrompt", "Exited"}]_vars
    /\ [][(pc # "Terminated" /\ pc' = "Terminated") =>
            /\ MenuLineRead
            /\ ParseInt(console'.text) = [ok |-> TRUE, val |-> 3]]_vars
    /\ [][NumericLineRead => pc' # "Terminated"]_vars

\* an attempt with a rejected entry, then a conversion, then choice 3
C17_Witness ==
    /\ pc = "Terminated"
    /\ CountOf(output, "Error: Please enter a valid number.") = 1
    /\ CountLevel(log, "INFO") = 1
    /\ console = Line(<<"3">>)

====
